---- MODULE Spec2Model ----
(***************************************************************************)
(* Model of frontend/app/screens/HomeScreen.tsx: the keyboard layout       *)
(* builder (buildPianoKeys and its helpers) and the tone engine of the     *)
(* HomeScreen component (ensureAudioContext, playNote, unmount cleanup).    *)
(*                                                                         *)
(* Units.  The source works with IEEE doubles; the model uses integers:    *)
(*   frequency             1/100000 Hz   (440 Hz = 44000000)               *)
(*   positionInWhiteUnits  1/100 of a white key width (0.75 = 75)          *)
(*   audio time            milliseconds  (0.6 s = 600)                     *)
(*   gain                  1/1000        (0.5 = 500, 0.001 = 1)            *)
(***************************************************************************)
EXTENDS Integers, Sequences, FiniteSets, TLC

(* ----------------------------- bounds ---------------------------------- *)
\* configured octave ranges explored by LayoutSpec: <<s, s+1, .., s+n-1>>
MaxStartOctave == 4
MaxOctaveCount == 3
\* calls explored by Spec
MaxPlays == 3
MaxCleanups == 2
MaxTicks == 2
\* milliseconds of audio time that pass in one Tick
TickMs == 200

(* ------------------------ layout constants ----------------------------- *)
OCTAVES == <<3, 4, 5>>

NOTE_ORDER == <<"C", "C#", "D", "D#", "E", "F", "F#", "G", "G#", "A", "A#", "B">>

\* Array.prototype.indexOf: 0-based position of the first match, -1 if none
IndexOf(seq, x) ==
    IF \E i \in 1..Len(seq) : seq[i] = x
    THEN (CHOOSE i \in 1..Len(seq) : seq[i] = x /\ \A j \in 1..(i - 1) : seq[j] # x) - 1
    ELSE -1

\* the fragments a note name splits into around a "#"
NoteLetters == {"", "A", "B", "C", "D", "E", "F", "G"}

\* mutant: startsWith("#") in place of includes("#")
IncludesSharp_StartsWith(noteName) ==
    \E q \in NoteLetters : noteName = "#" \o q

\* String.prototype.includes("#") on a note name: some split p # q of the name
IncludesSharp(noteName) ==
    \E p \in NoteLetters, q \in NoteLetters : noteName = p \o "#" \o q

blackPositionInOctave(step) ==
    CASE step = "C#" -> 75
      [] step = "D#" -> 175
      [] step = "F#" -> 375
      [] step = "G#" -> 475
      [] step = "A#" -> 575
      [] OTHER -> 0

\* mutant: the octave taken as is (C0 = 0 in place of C-1 = 0)
midiNumber_NoOctaveShift(note, octave) ==
    LET indexInOctave == IndexOf(NOTE_ORDER, note)
    IN  12 * octave + indexInOctave

\* convert note name + octave to MIDI number
midiNumber(note, octave) ==
    LET indexInOctave == IndexOf(NOTE_ORDER, note)
    IN  12 * (octave + 1) + indexInOctave

\* 2^(r/12) for r = 0..11, in 1/100000 (Math.pow on the fractional part)
TwelfthRootPowers ==
    <<100000, 105946, 112246, 118921, 125992, 133484,
      141421, 149831, 158740, 168179, 178180, 188775>>

RECURSIVE Pow2(_)
Pow2(n) == IF n = 0 THEN 1 ELSE 2 * Pow2(n - 1)

\* 440 * Math.pow(2, (midi - 69) / 12), in 1/100000 Hz
frequencyFromMidi(midi) ==
    LET q == (midi - 69) \div 12
        r == (midi - 69) % 12
        base == 440 * TwelfthRootPowers[r + 1]
    IN  IF q >= 0 THEN base * Pow2(q) ELSE base \div Pow2(-q)

\* `${noteName}${octave}`
fullName(noteName, octave) == noteName \o ToString(octave)

VARIABLES
    \* buildPianoKeys
    octaves,             \* the octave range iterated (OCTAVES in the source)
    octaveIdx,           \* forEach index over the octaves
    noteIdx,             \* forEach index over NOTE_ORDER
    keys,                \* const keys: PianoKey[]
    globalWhiteIndex,
    whiteIndexInOctave,
    midis,               \* the value of `const midi` of each iteration, in order
    pc,                  \* "build" while buildPianoKeys runs, "done" once it returned
    \* HomeScreen
    isWeb,               \* Platform.OS === "web"
    hasCtor,             \* window.AudioContext || window.webkitAudioContext is defined
    lastNote,            \* useState<string | null>(null); "" stands for null
    isWebSupported,      \* useState<boolean>(true)
    audioContextRef,     \* audioContextRef.current: 0 for null, else a context id
    contexts,            \* every AudioContext constructed so far, by id
    sessions,            \* every oscillator + gain pair scheduled so far
    clock,               \* wall time in ms; ctx.currentTime = clock - createdAt
    error,               \* an exception or rejected promise was produced
    \* history: the calls made on the view, in order
    calls

layoutVars == <<octaves, octaveIdx, noteIdx, keys, globalWhiteIndex,
                whiteIndexInOctave, midis, pc>>
engineVars == <<isWeb, hasCtor, lastNote, isWebSupported, audioContextRef,
                contexts, sessions, clock, error, calls>>
vars == <<octaves, octaveIdx, noteIdx, keys, globalWhiteIndex,
          whiteIndexInOctave, midis, pc,
          isWeb, hasCtor, lastNote, isWebSupported, audioContextRef,
          contexts, sessions, clock, error, calls>>

(* -------------------------- buildPianoKeys ----------------------------- *)
InitBuild(octs) ==
    /\ octaves = octs
    /\ octaveIdx = 0
    /\ noteIdx = 0
    /\ keys = <<>>
    /\ globalWhiteIndex = 0
    /\ whiteIndexInOctave = 0
    /\ midis = <<>>
    /\ pc = "build"

\* mutant: the octave number in place of the octave's position in the range
blackKey_ByOctaveNumber(noteName, octave, octIdx) ==
    LET posInOctave == blackPositionInOctave(noteName)
        positionInWhiteUnits == octave * 7 * 100 + posInOctave
    IN  [name |-> fullName(noteName, octave),
         label |-> noteName,
         frequency |-> frequencyFromMidi(midiNumber(noteName, octave)),
         isSharp |-> TRUE,
         positionInWhiteUnits |-> positionInWhiteUnits]

\* the black-key record pushed at lines 105-111
blackKey(noteName, octave, octIdx) ==
    LET posInOctave == blackPositionInOctave(noteName)
        positionInWhiteUnits == octIdx * 7 * 100 + posInOctave
    IN  [name |-> fullName(noteName, octave),
         label |-> noteName,
         frequency |-> frequencyFromMidi(midiNumber(noteName, octave)),
         isSharp |-> TRUE,
         positionInWhiteUnits |-> positionInWhiteUnits]

\* the white-key record pushed at lines 115-121
whiteKey(noteName, octave, whiteIndex) ==
    [name |-> fullName(noteName, octave),
     label |-> noteName,
     frequency |-> frequencyFromMidi(midiNumber(noteName, octave)),
     isSharp |-> FALSE,
     whiteIndex |-> whiteIndex]

\* mutant: the per-octave counter in place of the global one
nextWhiteIndex_PerOctave == whiteIndexInOctave

\* the whiteIndex given to the next white key (line 114)
nextWhiteIndex == globalWhiteIndex

\* advance the two nested forEach loops by one iteration
AdvanceLoop(white) ==
    IF noteIdx + 1 < Len(NOTE_ORDER)
    THEN /\ noteIdx' = noteIdx + 1
         /\ octaveIdx' = octaveIdx
         /\ whiteIndexInOctave' = whiteIndexInOctave + (IF white THEN 1 ELSE 0)
    ELSE /\ noteIdx' = 0
         /\ octaveIdx' = octaveIdx + 1
         /\ whiteIndexInOctave' = 0

PushBlackKey ==
    /\ pc = "build"
    /\ octaveIdx < Len(octaves)
    /\ LET octave == octaves[octaveIdx + 1]
           noteName == NOTE_ORDER[noteIdx + 1]
       IN  /\ IncludesSharp(noteName)
           /\ keys' = Append(keys, blackKey(noteName, octave, octaveIdx))
           /\ midis' = Append(midis, midiNumber(noteName, octave))
    /\ AdvanceLoop(FALSE)
    /\ UNCHANGED <<octaves, globalWhiteIndex, pc>>
    /\ UNCHANGED engineVars

PushWhiteKey ==
    /\ pc = "build"
    /\ octaveIdx < Len(octaves)
    /\ LET octave == octaves[octaveIdx + 1]
           noteName == NOTE_ORDER[noteIdx + 1]
       IN  /\ ~IncludesSharp(noteName)
           /\ keys' = Append(keys, whiteKey(noteName, octave, nextWhiteIndex))
           /\ midis' = Append(midis, midiNumber(noteName, octave))
    /\ globalWhiteIndex' = globalWhiteIndex + 1
    /\ AdvanceLoop(TRUE)
    /\ UNCHANGED <<octaves, pc>>
    /\ UNCHANGED engineVars

ReturnKeys ==
    /\ pc = "build"
    /\ octaveIdx = Len(octaves)
    /\ pc' = "done"
    /\ UNCHANGED <<octaves, octaveIdx, noteIdx, keys, globalWhiteIndex,
                   whiteIndexInOctave, midis>>
    /\ UNCHANGED engineVars

(* ----------------------------- HomeScreen ------------------------------ *)
InitEngine(web, ctor) ==
    /\ isWeb = web
    /\ hasCtor = ctor
    /\ lastNote = ""
    /\ isWebSupported = TRUE
    /\ audioContextRef = 0
    /\ contexts = <<>>
    /\ sessions = <<>>
    /\ clock = 0
    /\ error = FALSE
    /\ calls = <<>>

\* new AudioContextCtor(): a running context whose currentTime starts at 0
newAudioContext == [state |-> "running", createdAt |-> clock, closeCalls |-> 0]

\* ctx.currentTime, read in the state reached after ensureAudioContext
currentTime(ctx) == clock - contexts'[ctx].createdAt

\* AudioContext.close(): closes the context; on a context already closed the
\* returned promise is rejected (InvalidStateError)
close(ctx) ==
    /\ contexts' = [contexts EXCEPT ![ctx].state = "closed",
                                    ![ctx].closeCalls = @ + 1]
    /\ error' = (error \/ contexts[ctx].state = "closed")

\* mutant: ensureAudioContext without the check of the constructor
ensureAudioContext_NoCtorCheck(ret) ==
    IF ~isWeb
    THEN /\ ret = 0
         /\ UNCHANGED <<audioContextRef, contexts, isWebSupported>>
    ELSE /\ IF audioContextRef = 0
            THEN /\ contexts' = Append(contexts, newAudioContext)
                 /\ audioContextRef' = Len(contexts) + 1
            ELSE UNCHANGED <<audioContextRef, contexts>>
         /\ isWebSupported' = TRUE
         /\ ret = audioContextRef'

\* ensureAudioContext(); ret is the value returned (0 for null)
ensureAudioContext(ret) ==
    IF ~isWeb
    THEN /\ ret = 0
         /\ UNCHANGED <<audioContextRef, contexts, isWebSupported>>
    ELSE IF audioContextRef = 0 /\ ~hasCtor
    THEN /\ isWebSupported' = FALSE
         /\ ret = 0
         /\ UNCHANGED <<audioContextRef, contexts>>
    ELSE /\ IF audioContextRef = 0
            THEN /\ contexts' = Append(contexts, newAudioContext)
                 /\ audioContextRef' = Len(contexts) + 1
            ELSE UNCHANGED <<audioContextRef, contexts>>
         /\ isWebSupported' = TRUE
         /\ ret = audioContextRef'

\* the oscillator + gain pair wired and scheduled at lines 193-209
synthesisSession(ctx, frequency, now) ==
    [ctx |-> ctx,
     type |-> "sine",
     frequency |-> frequency,
     envelope |-> <<[value |-> 1, time |-> now],
                    [value |-> 500, time |-> now + 20],
                    [value |-> 1, time |-> now + 600]>>,
     start |-> now,
     stop |-> now + 600]

\* mutant: a frequency that is already scheduled on the context is not
\* scheduled again
schedule_Dedup(ctx, key) ==
    IF \E i \in 1..Len(sessions) :
           sessions[i].ctx = ctx /\ sessions[i].frequency = key.frequency
    THEN UNCHANGED sessions
    ELSE sessions' = Append(sessions,
                            synthesisSession(ctx, key.frequency, currentTime(ctx)))

\* what playNote does with the context it obtained
schedule(ctx, key) ==
    sessions' = Append(sessions, synthesisSession(ctx, key.frequency, currentTime(ctx)))

playNote(key) ==
    /\ lastNote' = key.name
    /\ IF ~isWeb
       THEN UNCHANGED <<audioContextRef, contexts, isWebSupported, sessions>>
       ELSE \E ctx \in 0..(Len(contexts) + 1) :
              /\ ensureAudioContext(ctx)
              /\ IF ctx = 0
                 THEN UNCHANGED sessions
                 ELSE schedule(ctx, key)
    /\ UNCHANGED <<error, clock, isWeb, hasCtor>>

\* mutant: the cleanup closes the context and keeps the reference
cleanup_KeepsRef ==
    /\ IF audioContextRef # 0
       THEN /\ close(audioContextRef)
            /\ UNCHANGED audioContextRef
       ELSE UNCHANGED <<audioContextRef, contexts, error>>
    /\ UNCHANGED <<lastNote, isWebSupported, sessions, clock, isWeb, hasCtor>>

\* the function returned by the useEffect at lines 215-222
cleanup ==
    /\ IF audioContextRef # 0
       THEN /\ close(audioContextRef)
            /\ audioContextRef' = 0
       ELSE UNCHANGED <<audioContextRef, contexts, error>>
    /\ UNCHANGED <<lastNote, isWebSupported, sessions, clock, isWeb, hasCtor>>

\* the keys pressed in the explored runs
PressedNames == {"C4", "C#4", "A4"}

\* how many calls of one operation were made so far
NCalls(op) == Cardinality({i \in 1..Len(calls) : calls[i].op = op})

\* onPress={() => playNote(key)} of a rendered key
PlayNote ==
    /\ pc = "done"
    /\ NCalls("playNote") < MaxPlays
    /\ \E i \in 1..Len(keys) :
         /\ keys[i].name \in PressedNames
         /\ playNote(keys[i])
         /\ calls' = Append(calls, [op |-> "playNote", key |-> keys[i].name])
    /\ UNCHANGED layoutVars

\* React runs the effect cleanup (unmount, or a development re-mount)
Cleanup ==
    /\ pc = "done"
    /\ NCalls("cleanup") < MaxCleanups
    /\ cleanup
    /\ calls' = Append(calls, [op |-> "cleanup", key |-> ""])
    /\ UNCHANGED layoutVars

\* audio time passes
Tick ==
    /\ pc = "done"
    /\ clock < MaxTicks * TickMs
    /\ clock' = clock + TickMs
    /\ UNCHANGED <<isWeb, hasCtor, lastNote, isWebSupported, audioContextRef,
                   contexts, sessions, error, calls>>
    /\ UNCHANGED layoutVars

(* --------------------------- specifications ---------------------------- *)
\* the component as shipped: the keyboard of OCTAVES, on any platform
Init ==
    /\ InitBuild(OCTAVES)
    /\ \E web \in BOOLEAN, ctor \in BOOLEAN : InitEngine(web, ctor)

Next ==
    \/ PushBlackKey
    \/ PushWhiteKey
    \/ ReturnKeys
    \/ PlayNote
    \/ Cleanup
    \/ Tick

Spec == Init /\ [][Next]_vars

\* buildPianoKeys over every contiguous ascending octave range within the bounds
OctaveRanges ==
    {[i \in 1..n |-> s + i - 1] : s \in 0..MaxStartOctave, n \in 0..MaxOctaveCount}

LayoutInit ==
    /\ \E octs \in OctaveRanges : InitBuild(octs)
    /\ InitEngine(TRUE, TRUE)

LayoutNext ==
    \/ PushBlackKey
    \/ PushWhiteKey
    \/ ReturnKeys

LayoutSpec == LayoutInit /\ [][LayoutNext]_vars

(* ------------------------- tone engine claims -------------------------- *)
\* the view's state tag, read off the component's state
Supported == isWeb /\ hasCtor
Disposed == NCalls("cleanup") > 0
Ready == audioContextRef # 0
LastCall == IF calls = <<>> THEN [op |-> "none", key |-> ""] ELSE calls[Len(calls)]
PlayStep == Len(calls') = Len(calls) + 1 /\ calls'[Len(calls')].op = "playNote"
CleanupStep == Len(calls') = Len(calls) + 1 /\ calls'[Len(calls')].op = "cleanup"

\* C1: once the unmount cleanup has run, no later call leaves the Disposed
\* state: no step constructs a context, takes a context into the ref,
\* schedules a session or produces an error.
C1_DisposedIsTerminal ==
    [][Disposed =>
         /\ Disposed'
         /\ audioContextRef' = 0
         /\ Len(contexts') = Len(contexts)
         /\ Len(sessions') = Len(sessions)
         /\ ~error']_vars

\* C2: at most one AudioContext is ever constructed on a view, none before
\* the first playNote, and every session is scheduled on that one context.
C2_SingleHandle ==
    /\ Len(contexts) <= 1
    /\ (NCalls("playNote") = 0 => contexts = <<>>)
    /\ \A i \in 1..Len(sessions) : sessions[i].ctx = 1

\* C3: close is never invoked twice on a context, and once the cleanup has
\* run every context constructed so far is closed, after any later call too.
C3_ReleasedExactlyOnce ==
    /\ \A h \in 1..Len(contexts) : contexts[h].closeCalls <= 1
    /\ Disposed =>
         \A h \in 1..Len(contexts) :
             contexts[h].state = "closed" /\ contexts[h].closeCalls = 1

\* C4: a cleanup that directly follows a cleanup, or that runs when no
\* context was ever constructed, changes no state of the view, closes
\* nothing and produces no error.
C4_ShutdownIdempotent ==
    [][(CleanupStep /\ (LastCall.op = "cleanup" \/ contexts = <<>>)) =>
         /\ UNCHANGED <<audioContextRef, contexts, sessions, lastNote,
                        isWebSupported, clock, error>>
         /\ ~error']_vars

C4_Witness ==
    /\ Len(calls) = 3
    /\ calls[1].op = "playNote" /\ calls[2].op = "cleanup" /\ calls[3].op = "cleanup"
    /\ Len(contexts) = 1
    /\ contexts[1].closeCalls = 1
    /\ ~error

\* C5: on a platform without audio synthesis every playNote completes
\* without error, constructs no context, schedules no session, and changes
\* nothing but lastNote (the pressed key's name) and, on the web, the
\* isWebSupported flag (cleared).
C5_UnsupportedSilent ==
    [][~Supported =>
         /\ contexts' = <<>>
         /\ sessions' = <<>>
         /\ audioContextRef' = 0
         /\ ~error'
         /\ PlayStep =>
              /\ lastNote' = calls'[Len(calls')].key
              /\ isWebSupported' = (IF isWeb THEN FALSE ELSE isWebSupported)
              /\ clock' = clock]_vars

C5_Witness ==
    /\ isWeb /\ ~hasCtor
    /\ NCalls("playNote") >= 2
    /\ LastCall = [op |-> "playNote", key |-> "A4"]
    /\ lastNote = "A4"
    /\ ~isWebSupported

\* two sessions sound at the same time
Overlap(a, b) == a.start < b.stop /\ b.start < a.stop

\* the sessions made so far: one per call, each 600 ms long
SessionsCounted ==
    /\ (Supported /\ ~Disposed) => Len(sessions) = NCalls("playNote")
    /\ \A i \in 1..Len(sessions) : sessions[i].stop = sessions[i].start + 600
    /\ \A i \in 1..Len(sessions), j \in 1..Len(sessions) :
         (i < j /\ sessions[i].ctx = sessions[j].ctx
                /\ sessions[i].start = sessions[j].start) =>
             /\ Overlap(sessions[i], sessions[j])
             /\ sessions[i].stop = sessions[j].stop

\* one playNote on a held context
ReadyPlayStep ==
    (PlayStep /\ Ready) =>
        /\ Len(sessions') = Len(sessions) + 1
        /\ SubSeq(sessions', 1, Len(sessions)) = sessions
        /\ audioContextRef' = audioContextRef
        /\ contexts' = contexts
        /\ LET s == sessions'[Len(sessions')]
           IN  /\ s.ctx = audioContextRef
               /\ s.type = "sine"
               /\ s.start = clock - contexts[audioContextRef].createdAt
               /\ s.stop = s.start + 600
               /\ \E i \in 1..Len(keys) :
                    /\ keys[i].name = calls'[Len(calls')].key
                    /\ s.frequency = keys[i].frequency

\* C6: every playNote in the Ready state appends one new session (sine
\* oscillator + envelope on the held context, started at currentTime and
\* stopped 600 ms later) and leaves the earlier sessions as they were; up
\* to the cleanup, k calls have made exactly k sessions; two sessions
\* scheduled at the same time on one context coincide in time whatever
\* their frequencies.
C6_IndependentSessions == [](SessionsCounted) /\ [][ReadyPlayStep]_vars

C6_Witness ==
    \E i \in 1..Len(sessions), j \in 1..Len(sessions) :
        /\ i < j
        /\ sessions[i].ctx = sessions[j].ctx
        /\ sessions[i].frequency = sessions[j].frequency
        /\ sessions[i].start = sessions[j].start

(* ------------------------ keyboard layout claims ----------------------- *)
\* the octave and the pitch class the i-th generated key belongs to
OctaveOrdinalAt(i) == (i - 1) \div 12
OctaveAt(i) == octaves[OctaveOrdinalAt(i) + 1]
IndexInOrderAt(i) == (i - 1) % 12
PitchClassAt(i) == NOTE_ORDER[IndexInOrderAt(i) + 1]
RaisedClasses == {"C#", "D#", "F#", "G#", "A#"}
NaturalKeys == {i \in 1..Len(keys) : ~keys[i].isSharp}
RaisedKeys == {i \in 1..Len(keys) : keys[i].isSharp}
Built == pc = "done"

\* C7: for an octave range of length N the builder returns 12N keys, 7N
\* natural and 5N raised, octave by octave and C..B within each octave; for
\* <<3, 4, 5>> that is 36 keys from "C3" to "B5", 21 natural and 15
\* raised, with pairwise distinct names.
C7_KeyCounts ==
    Built =>
        LET N == Len(octaves)
        IN  /\ Len(keys) = 12 * N
            /\ Cardinality(NaturalKeys) = 7 * N
            /\ Cardinality(RaisedKeys) = 5 * N
            /\ \A i \in 1..Len(keys) :
                 /\ keys[i].label = PitchClassAt(i)
                 /\ keys[i].name = PitchClassAt(i) \o ToString(OctaveAt(i))
                 /\ keys[i].isSharp = (PitchClassAt(i) \in RaisedClasses)
            /\ octaves = <<3, 4, 5>> =>
                 /\ Len(keys) = 36
                 /\ keys[1].name = "C3"
                 /\ keys[36].name = "B5"
                 /\ Cardinality(NaturalKeys) = 21
                 /\ Cardinality(RaisedKeys) = 15
                 /\ \A i \in 1..36, j \in 1..36 :
                      i # j => keys[i].name # keys[j].name

C7_Witness ==
    /\ Built
    /\ octaves = <<3, 4, 5>>
    /\ Len(keys) = 36
    /\ keys[36].name = "B5"

\* C8: the k-th natural key in generation order has whiteIndex k - 1 (one
\* counter for the whole run), so the natural keys of the returned
\* collection carry exactly 0..7N-1, each once; a key has a whiteIndex
\* field iff it is natural and a positionInWhiteUnits field iff it is raised.
C8_WhiteSlots ==
    /\ \A i \in 1..Len(keys) :
         /\ ("whiteIndex" \in DOMAIN keys[i]) = ~keys[i].isSharp
         /\ ("positionInWhiteUnits" \in DOMAIN keys[i]) = keys[i].isSharp
    /\ \A i \in NaturalKeys :
         keys[i].whiteIndex = Cardinality({j \in NaturalKeys : j < i})
    /\ Built =>
         /\ {keys[i].whiteIndex : i \in NaturalKeys} = 0..(7 * Len(octaves) - 1)
         /\ \A i \in NaturalKeys, j \in NaturalKeys :
              i # j => keys[i].whiteIndex # keys[j].whiteIndex

C8_Witness ==
    /\ Built
    /\ Len(octaves) = 3
    /\ \E i \in NaturalKeys : keys[i].name = "C5" /\ keys[i].whiteIndex = 14

\* C9: along the returned keys of a contiguous ascending octave range the
\* semitone index is 12 * (octave + 1) + indexInOrder and rises by 1 from
\* each key to the next, the frequency rises strictly, C4 has index 60 and
\* A4 has index 69 and frequency 440 Hz.
C9_FrequencyOrder ==
    Built =>
        /\ Len(midis) = Len(keys)
        /\ \A i \in 1..Len(keys) :
             /\ midis[i] = 12 * (OctaveAt(i) + 1) + IndexInOrderAt(i)
             /\ keys[i].frequency > 0
             /\ keys[i].name = "C4" => midis[i] = 60
             /\ keys[i].name = "A4" =>
                  midis[i] = 69 /\ keys[i].frequency = 440 * 100000
        /\ \A i \in 1..(Len(keys) - 1) :
             /\ midis[i + 1] = midis[i] + 1
             /\ keys[i].frequency < keys[i + 1].frequency

C9_Witness ==
    /\ Built
    /\ Len(octaves) >= 2
    /\ \E i \in 1..Len(keys) : keys[i].name = "A4" /\ keys[i].frequency = 44000000
    /\ \E i \in 1..Len(keys) : keys[i].name = "C4" /\ midis[i] = 60

\* C10: a raised key's positionInWhiteUnits is 7 * (0-based position of
\* its octave in the range) + 0.75, 1.75, 3.75, 4.75 or 5.75 for C#, D#,
\* F#, G#, A#; "C#4" of <<3, 4, 5>> is at 7.75; the position rises
\* strictly along the raised keys in generation order.
FixedOffset(pitchClass) ==
    CASE pitchClass = "C#" -> 75
      [] pitchClass = "D#" -> 175
      [] pitchClass = "F#" -> 375
      [] pitchClass = "G#" -> 475
      [] pitchClass = "A#" -> 575

C10_BlackOffsets ==
    /\ \A i \in RaisedKeys :
         keys[i].positionInWhiteUnits =
             700 * OctaveOrdinalAt(i) + FixedOffset(keys[i].label)
    /\ \A i \in RaisedKeys, j \in RaisedKeys :
         i < j => keys[i].positionInWhiteUnits < keys[j].positionInWhiteUnits
    /\ (Built /\ octaves = <<3, 4, 5>>) =>
         \E i \in RaisedKeys :
             keys[i].name = "C#4" /\ keys[i].positionInWhiteUnits = 775

C10_Witness ==
    /\ Built
    /\ octaves = <<3, 4, 5>>
    /\ \E i \in RaisedKeys : keys[i].name = "C#4" /\ keys[i].positionInWhiteUnits = 775

====
